---- MODULE Spec2Model ----
(***************************************************************************)
(* douglasmakey/tracking: the asynchronous driver-matching service.        *)
(*                                                                         *)
(* State: the Redis keyspace the handlers and tasks share (the request-id  *)
(* counter, one flag key per request id, the geo sorted set "drivers"),    *)
(* and the RequestDriverTask goroutines with their doSearch goroutines.    *)
(* Time is counted in seconds and advances one ticker period at a time;    *)
(* events inside one period are interleaved freely.                        *)
(***************************************************************************)
EXTENDS Integers, Sequences, FiniteSets, TLC

\* ------------------------------------------------------------- bounds
\* A run is bounded by the number of /v2/search requests that start a task and
\* by the number of events around them: /v2/cancel and /tracking requests served,
\* plus Redis commands that fail in transport.
PairTasks == 2         \* two concurrent requests ...
PairEvents == 1        \* ... with one event
SoloTasks == 1         \* one request ...
SoloEvents == 2        \* ... with two events
MaxId == 2             \* largest value the request_id counter takes
MaxLag == 1            \* ticker periods a doSearch may spend in the index
DeskEvents == 3        \* events of a run of the synchronous endpoints
ClashTasks == 2        \* two requests, one after the other ...
ClashEvents == 2       \* ... with two cancel calls
StallTasks == 1        \* one request ...
StallEvents == 2       \* ... with a position report and a cancel call ...
StallLag == 2          \* ... and a doSearch that may take two ticker periods

\* ---------------------------------------------------- program constants
T_poll == 30           \* time.NewTicker(time.Second * 30)
T_search == 240        \* rClient.Set(key, true, time.Minute*4)
T_cancelGrace == 60    \* rClient.Set(body.RequestID, false, time.Minute*1)
R_search == 5          \* SearchDrivers(1, r.Lat, r.Lng, 5)
SearchLimit == 1       \* SearchDrivers(1, r.Lat, r.Lng, 5)
DoneCap == 1           \* done := make(chan bool, 1)
R_immediate == 15      \* SearchDrivers(body.Limit, body.Lat, body.Lng, 15)

\* ------------------------------------------------------------- inputs
Agents == {"A1", "A2"}         \* driver ids sent to /tracking
AgentPos == {2, 8}             \* reported positions, km along one road
Targets == {0}                 \* pickup points sent to /v2/search
NoPos == 0 - 1                   \* the agent is not a member of the geo set
NoTTL == 0 - 1                   \* Redis TTL of a key that never expires
Methods == {"POST", "GET"}
DeskSpots == {2, 8, 20}        \* positions reported to the synchronous endpoints
Limits == {0 - 1, 0, 1, 2}     \* limit values sent to /search

CounterKey == "request_id"
key == "drivers"

Digit == <<"0", "1", "2", "3", "4", "5", "6", "7", "8", "9">>

\* strconv.Itoa: the decimal string of a non-negative integer.
RECURSIVE Itoa(_)
Itoa(n) ==
    IF n < 10 THEN Digit[n + 1] ELSE Itoa(n \div 10) \o Digit[(n % 10) + 1]

RequestKeys == {Itoa(i) : i \in 1..MaxId}
Keys == {CounterKey, key} \cup RequestKeys

\* The inverse of Itoa on the ids the counter can issue (0 for any other key).
Atoi(s) == IF s \in RequestKeys THEN CHOOSE i \in 1..MaxId : Itoa(i) = s ELSE 0

VARIABLES
    alive,      \* the process has not exited through log.Fatalf
    rdb,        \* Redis keyspace: key -> [type, val, ttl]
    index,      \* members of the geo sorted set at "drivers": agent -> position
    tasks,      \* the RequestDriverTask goroutines, in the order they were started
    calls,      \* /v2/cancel and /tracking requests served so far
    faults,     \* Redis commands that have failed in transport so far
    run,        \* the bounds and inputs of this run:
                \* [tasks, events, agents, spots, lag, replies]
    resp        \* the reply to the last /tracking or /search request

vars == <<alive, rdb, index, tasks, calls, faults, run, resp>>

NoKey == [type |-> "none", val |-> 0, ttl |-> NoTTL]
NoReply == [status |-> 0, drivers |-> <<>>]
EmptyIndex == [a \in Agents |-> NoPos]

\* ------------------------------------------------------ Redis commands
\* go-redis writes a bool argument as "1" or "0".
BoolArg(b) == IF b THEN 1 ELSE 0

\* strconv.ParseBool on a stored decimal value: "1" is true, "0" is false,
\* every other decimal string is an error, which the caller reads as false.
ParseBool(v) == v = 1

\* SET k v EX ttl: create or overwrite, whatever the key held.
RedisSet(db, k, v, ttl) ==
    [db EXCEPT ![k] = [type |-> "string", val |-> v, ttl |-> ttl]]

\* GET k: the value, or an error (redis.Nil for a missing key, WRONGTYPE).
RedisGet(db, k) ==
    IF db[k].type = "string"
    THEN [err |-> FALSE, val |-> db[k].val]
    ELSE [err |-> TRUE, val |-> 0]

\* INCR k: a missing key counts from 0; the key's TTL is kept.
RedisIncr(db, k) ==
    CASE db[k].type = "none" ->
            [err |-> FALSE, val |-> 1,
             db |-> [db EXCEPT ![k] = [type |-> "string", val |-> 1, ttl |-> NoTTL]]]
      [] db[k].type = "string" ->
            [err |-> FALSE, val |-> db[k].val + 1,
             db |-> [db EXCEPT ![k].val = db[k].val + 1]]
      [] OTHER -> [err |-> TRUE, val |-> 0, db |-> db]

\* The geo set's members after the keyspace changed: none unless the key is a zset.
Members(db, idx) == IF db[key].type = "zset" THEN idx ELSE EmptyIndex

Dist(p, q) == IF p >= q THEN p - q ELSE q - p

Within(idx, lat, r) == {a \in Agents : idx[a] # NoPos /\ Dist(idx[a], lat) <= r}

\* All orderings of the set S by ascending distance from lat.
RECURSIVE Ascending(_, _, _)
Ascending(S, idx, lat) ==
    IF S = {} THEN {<<>>}
    ELSE LET near == {a \in S : \A b \in S : Dist(idx[a], lat) <= Dist(idx[b], lat)}
         IN  UNION {{<<a>> \o rest : rest \in Ascending(S \ {a}, idx, lat)} : a \in near}

\* COUNT that lets one member more through.
Prefix_OneMore(s, n) == IF Len(s) <= n + 1 THEN s ELSE SubSeq(s, 1, n + 1)

\* COUNT n: the first n members of the reply.
Prefix(s, n) == IF Len(s) <= n THEN s ELSE SubSeq(s, 1, n)
\* ---------------------------------------------- storages.RedisClient
\* GEOADD drivers lng lat id; the reply is dropped, so a WRONGTYPE error (the key
\* holds a string) or a transport error (ok = FALSE) leaves everything as it was.
AddDriverLocation(db, idx, lat, id, ok) ==
    IF ok /\ db[key].type \in {"none", "zset"}
    THEN [db |-> [db EXCEPT ![key] = [type |-> "zset", val |-> 0, ttl |-> db[key].ttl]],
          idx |-> [Members(db, idx) EXCEPT ![id] = lat]]
    ELSE [db |-> db, idx |-> idx]

\* RemoveDriverLocation without the ZREM.
RemoveDriverLocation_Keep(db, idx, id, ok) == [db |-> db, idx |-> idx]

\* ZREM drivers id; the reply is dropped. Redis deletes a sorted set that
\* becomes empty.
RemoveDriverLocation(db, idx, id, ok) ==
    IF ok /\ db[key].type = "zset"
    THEN LET left == [idx EXCEPT ![id] = NoPos]
         IN  [db |-> IF left = EmptyIndex THEN [db EXCEPT ![key] = NoKey] ELSE db,
              idx |-> left]
    ELSE [db |-> db, idx |-> idx]

\* SearchDrivers that answers from the index although the command failed.
SearchDrivers_ErrIgnored(db, idx, limit, lat, r, ok) ==
    IF db[key].type = "zset"
    THEN {IF limit > 0 THEN Prefix(s, limit) ELSE s :
             s \in Ascending(Within(idx, lat, r), idx, lat)}
    ELSE {<<>>}

\* GEORADIUS drivers lng lat r km WITHDIST ... [COUNT limit] ASC: the possible
\* replies (members at one distance come in either order). go-redis sends COUNT
\* only when limit > 0. An error (res, _ := ...) leaves res nil.
SearchDrivers(db, idx, limit, lat, r, ok) ==
    IF ok /\ db[key].type = "zset"
    THEN {IF limit > 0 THEN Prefix(s, limit) ELSE s :
             s \in Ascending(Within(idx, lat, r), idx, lat)}
    ELSE {<<>>}

\* ------------------------------------------------ tasks.RequestDriverTask
MsgExpired == "Sorry, we did not find any driver."
MsgFound(driver) == "Driver " \o driver \o " found"

\* NewRequestDriverTask plus the locals of Run: the ticker, the done channel
\* (capacity 1) and the doSearch goroutines the task has launched.
NewRequestDriverTask(id, userID, lat) ==
    [ID |-> id, UserID |-> userID, Lat |-> lat, DriverID |-> "",
     state |-> "Polling",   \* Polling until Run returns; then the branch it left by
     tick |-> FALSE,        \* a tick waits in ticker.C
     ticker |-> TRUE,       \* the ticker has not been stopped
     done |-> <<>>,         \* the done channel's buffer; each value carries the
                            \* ticker periods its doSearch had run when it sent
     age |-> 0,             \* seconds since NewTicker
     sent |-> <<>>,         \* the messages handed to sendInfo
     searches |-> <<>>,     \* doSearch goroutines: [pc, drv, lag]
     cancels |-> 0,         \* CancelRequest calls that named this request while it ran
     attempts |-> 0,        \* doSearch goroutines launched so far
     reply |-> "none",      \* the ledger read of the last tick
     last |-> "none"]       \* the last index reply one of its doSearch got

\* validateRequest that takes every entry it finds for an active one.
validateRequest_FlagIgnored(db, r, ok) ==
    LET got == RedisGet(db, r.ID)
    IN  IF ~ok \/ got.err THEN "ErrExpired" ELSE "nil"

\* validateRequest that lets a failed GET pass as active.
validateRequest_ErrIgnored(db, r, ok) ==
    LET got == RedisGet(db, r.ID)
    IN  IF ~ok THEN "nil"
        ELSE IF got.err THEN "ErrExpired"
        ELSE IF ~ParseBool(got.val) THEN "ErrCanceled"
        ELSE "nil"

\* validateRequest: nil ("ok"), ErrExpired or ErrCanceled. 'ok' is FALSE when the
\* GET fails in transport.
validateRequest(db, r, ok) ==
    LET got == RedisGet(db, r.ID)
    IN  IF ~ok \/ got.err THEN "ErrExpired"
        ELSE IF ~ParseBool(got.val) THEN "ErrCanceled"
        ELSE "nil"

\* sendInfo: the message is delivered to r.UserID (here: recorded).
sendInfo(r, message) == [r EXCEPT !.sent = Append(r.sent, message)]

\* Run is still in its for/select loop.
Running(r) == r.state = "Polling"

Remove(s, i) == SubSeq(s, 1, i - 1) \o SubSeq(s, i + 1, Len(s))

TypeOK ==
    /\ alive \in BOOLEAN
    /\ DOMAIN rdb = Keys
    /\ \A k \in Keys : rdb[k].type \in {"none", "string", "zset"}
    /\ DOMAIN index = Agents
    /\ Len(tasks) <= run.tasks
    /\ calls + faults <= run.events

InitWith(l) ==
    /\ run = l
    /\ alive = TRUE
    /\ rdb = [k \in Keys |-> NoKey]
    /\ index = EmptyIndex
    /\ tasks = <<>>
    /\ calls = 0
    /\ faults = 0
    /\ resp = NoReply
\* ------------------------------------------------------------ handlers
\* The reply the client gets; it is recorded in the runs that study the replies.
Reply(x) == resp' = IF run.replies THEN x ELSE resp

\* A Redis command either succeeds (ok) or fails in transport.
Outcome(ok) ==
    /\ ok \/ calls + faults < run.events
    /\ faults' = IF ok THEN faults ELSE faults + 1

\* GetRedisClient pings Redis on every call and ends the process with log.Fatalf
\* when the ping fails. Every handler and every task step starts with that call.
\* The goroutines die with the process; the Redis server keeps its keys.
GetRedisClient ==
    /\ alive
    /\ calls + faults < run.events
    /\ alive' = FALSE
    /\ tasks' = <<>>
    /\ faults' = faults + 1
    /\ UNCHANGED <<rdb, index, calls, run, resp>>

\* POST /v2/search. decodable: the body parses as {lat, lng}; incrOk, setOk: the
\* INCR and the SET reached Redis.
SearchV2(decodable, lat, incrOk, setOk) ==
    /\ alive
    /\ Len(tasks) < run.tasks
    /\ rdb[CounterKey].type = "string" => rdb[CounterKey].val < MaxId
    /\ Outcome(incrOk /\ setOk)
    /\ incrOk \/ setOk
    /\ LET inc == RedisIncr(rdb, CounterKey)
           id  == Itoa(inc.val)
           db2 == IF setOk THEN RedisSet(inc.db, id, BoolArg(TRUE), T_search)
                  ELSE inc.db
       IN  IF ~incrOk \/ inc.err
           THEN UNCHANGED <<rdb, index, tasks>>
           ELSE /\ rdb' = db2
                /\ index' = Members(db2, index)
                /\ tasks' = IF decodable
                            THEN Append(tasks,
                                   NewRequestDriverTask(id, "requestor_" \o id, lat))
                            ELSE tasks
    /\ UNCHANGED <<alive, calls, run, resp>>

\* CancelRequest that also puts the tasks of the request back into their loop.
CancelRequest_Resurrect(id, setOk) ==
    /\ alive
    /\ calls + faults < run.events
    /\ calls' = IF setOk THEN calls + 1 ELSE calls
    /\ Outcome(setOk)
    /\ IF setOk
       THEN LET db2 == RedisSet(rdb, id, BoolArg(FALSE), T_cancelGrace)
            IN  /\ rdb' = db2
                /\ index' = Members(db2, index)
       ELSE UNCHANGED <<rdb, index>>
    /\ tasks' = [t \in DOMAIN tasks |->
                   IF tasks[t].ID = id
                   THEN [tasks[t] EXCEPT !.cancels = @ + 1, !.state = "Polling"]
                   ELSE tasks[t]]
    /\ UNCHANGED <<alive, run, resp>>

\* CancelRequest that flips the flag it finds instead of writing false.
CancelRequest_Toggle(id, setOk) ==
    /\ alive
    /\ calls + faults < run.events
    /\ calls' = IF setOk THEN calls + 1 ELSE calls
    /\ Outcome(setOk)
    /\ IF setOk
       THEN LET got == RedisGet(rdb, id)
                db2 == RedisSet(rdb, id,
                                BoolArg(~got.err /\ ~ParseBool(got.val)), T_cancelGrace)
            IN  /\ rdb' = db2
                /\ index' = Members(db2, index)
       ELSE UNCHANGED <<rdb, index>>
    /\ tasks' = [t \in DOMAIN tasks |->
                   IF tasks[t].ID = id /\ Running(tasks[t])
                   THEN [tasks[t] EXCEPT !.cancels = @ + 1]
                   ELSE tasks[t]]
    /\ UNCHANGED <<alive, run, resp>>

\* POST /v2/cancel with body {request_id: id}; the SET's reply is dropped.
CancelRequest(id, setOk) ==
    /\ alive
    /\ calls + faults < run.events
    /\ calls' = IF setOk THEN calls + 1 ELSE calls
    /\ Outcome(setOk)
    /\ IF setOk
       THEN LET db2 == RedisSet(rdb, id, BoolArg(FALSE), T_cancelGrace)
            IN  /\ rdb' = db2
                /\ index' = Members(db2, index)
       ELSE UNCHANGED <<rdb, index>>
    /\ tasks' = [t \in DOMAIN tasks |->
                   IF tasks[t].ID = id /\ Running(tasks[t])
                   THEN [tasks[t] EXCEPT !.cancels = @ + 1]
                   ELSE tasks[t]]
    /\ UNCHANGED <<alive, run, resp>>

\* POST /v2/cancel with a body that does not decode: 500, nothing written.
CancelRequestBadBody ==
    /\ alive
    /\ UNCHANGED vars

\* POST /tracking with a position report {id, lat, lng}.
tracking(id, lat, ok) ==
    /\ alive
    /\ calls + faults < run.events
    /\ calls' = IF ok THEN calls + 1 ELSE calls
    /\ Outcome(ok)
    /\ LET r == AddDriverLocation(rdb, index, lat, id, ok)
       IN  rdb' = r.db /\ index' = r.idx
    /\ Reply([status |-> 200, drivers |-> <<>>])
    /\ UNCHANGED <<alive, tasks, run>>

\* /tracking with another method (405) or an undecodable body (500).
trackingRejected ==
    /\ alive
    /\ \E method \in Methods, decodable \in BOOLEAN :
          /\ method # "POST" \/ ~decodable
          /\ Reply([status |-> IF method # "POST" THEN 405 ELSE 500, drivers |-> <<>>])
    /\ UNCHANGED <<alive, rdb, index, tasks, calls, faults, run>>

\* POST /search with body {lat, lng, limit}: the drivers within 15 km, nearest
\* first. A failed GEORADIUS leaves a nil slice, which is answered as 200 "null".
search(method, decodable, limit, lat, ok) ==
    /\ alive
    /\ (method = "POST" /\ decodable) \/ ok
    /\ Outcome(ok)
    /\ IF method # "POST"
       THEN Reply([status |-> 405, drivers |-> <<>>])
       ELSE IF ~decodable
       THEN Reply([status |-> 500, drivers |-> <<>>])
       ELSE \E drivers \in SearchDrivers(rdb, index, limit, lat, R_immediate, ok) :
               Reply([status |-> 200, drivers |-> drivers])
    /\ UNCHANGED <<alive, rdb, index, tasks, calls, run>>

\* client.RemoveDriverLocation(id) called on the client directly, as the
\* handler test does to withdraw its drivers.
Withdraw(id, ok) ==
    /\ alive
    /\ calls + faults < run.events
    /\ calls' = IF ok THEN calls + 1 ELSE calls
    /\ Outcome(ok)
    /\ LET r == RemoveDriverLocation(rdb, index, id, ok)
       IN  rdb' = r.db /\ index' = r.idx
    /\ UNCHANGED <<alive, tasks, run, resp>>

\* ------------------------------------------------------ RequestDriverTask.Run
\* Run with a notification added to the ErrCanceled branch.
RunBranch_NotifyCanceled(r, v) ==
    CASE v = "nil" ->
           [r EXCEPT !.searches = Append(@, [pc |-> "query", drv |-> "", lag |-> 0]),
                     !.attempts = @ + 1]
      [] v = "ErrExpired" ->
           [sendInfo(r, MsgExpired) EXCEPT !.state = "Expired"]
      [] v = "ErrCanceled" ->
           [sendInfo(r, MsgExpired) EXCEPT !.state = "Canceled"]
      [] OTHER ->
           [r EXCEPT !.state = "Failed"]

\* Run with a last doSearch launched from the ErrCanceled branch.
RunBranch_SearchAnyway(r, v) ==
    CASE v = "nil" ->
           [r EXCEPT !.searches = Append(@, [pc |-> "query", drv |-> "", lag |-> 0]),
                     !.attempts = @ + 1]
      [] v = "ErrExpired" ->
           [sendInfo(r, MsgExpired) EXCEPT !.state = "Expired"]
      [] v = "ErrCanceled" ->
           [r EXCEPT !.state = "Canceled",
                     !.searches = Append(@, [pc |-> "query", drv |-> "", lag |-> 0])]
      [] OTHER ->
           [r EXCEPT !.state = "Failed"]

\* switch r.validateRequest(): what Run does with the answer v.
RunBranch(r, v) ==
    CASE v = "nil" ->
           [r EXCEPT !.searches = Append(@, [pc |-> "query", drv |-> "", lag |-> 0]),
                     !.attempts = @ + 1]
      [] v = "ErrExpired" ->
           [sendInfo(r, MsgExpired) EXCEPT !.state = "Expired"]
      [] v = "ErrCanceled" ->
           [r EXCEPT !.state = "Canceled"]
      [] OTHER ->
           [r EXCEPT !.state = "Failed"]

\* case <-ticker.C: the validity check and the branch it selects.
RunTick(t, getOk) ==
    /\ alive
    /\ Running(tasks[t])
    /\ tasks[t].tick
    /\ Outcome(getOk)
    /\ LET v == validateRequest(rdb, tasks[t], getOk)
           reply == IF ~getOk THEN "transport"
                    ELSE IF v = "ErrExpired" THEN "absent"
                    ELSE IF v = "ErrCanceled" THEN "canceled" ELSE "active"
       IN  tasks' = [tasks EXCEPT ![t] =
                       RunBranch([@ EXCEPT !.tick = FALSE, !.reply = reply], v)]
    /\ UNCHANGED <<alive, rdb, index, calls, run, resp>>

\* case <-done: the match is announced, the ticker stopped, and Run returns.
RunDone(t) ==
    /\ alive
    /\ Running(tasks[t])
    /\ tasks[t].done # <<>>
    /\ LET r == [tasks[t] EXCEPT !.done = Tail(@)]
       IN  tasks' = [tasks EXCEPT ![t] =
             [sendInfo(r, MsgFound(r.DriverID)) EXCEPT
                !.ticker = FALSE, !.state = "Matched"]]
    /\ UNCHANGED <<alive, rdb, index, calls, faults, run, resp>>

\* ------------------------------------------------- RequestDriverTask.doSearch
\* doSearch that records the agent as soon as the index has returned it.
doSearchQuery_RecordFirst(t, g, ok) ==
    /\ alive
    /\ g \in DOMAIN tasks[t].searches
    /\ tasks[t].searches[g].pc = "query"
    /\ Outcome(ok)
    /\ \E drivers \in SearchDrivers(rdb, index, SearchLimit, tasks[t].Lat, R_search, ok) :
         tasks' = [tasks EXCEPT ![t] =
            [@ EXCEPT !.searches =
                         IF Len(drivers) = 1
                         THEN [@ EXCEPT ![g] = [@ EXCEPT !.pc = "remove",
                                                         !.drv = drivers[1]]]
                         ELSE Remove(@, g),
                      !.DriverID = IF Len(drivers) = 1 THEN drivers[1] ELSE @,
                      !.last = IF ~ok THEN "unreachable"
                               ELSE IF Len(drivers) = 1 THEN "found" ELSE "empty"]]
    /\ UNCHANGED <<alive, rdb, index, calls, run, resp>>

\* drivers := rClient.SearchDrivers(1, r.Lat, r.Lng, 5); if len(drivers) == 1 ...
doSearchQuery(t, g, ok) ==
    /\ alive
    /\ g \in DOMAIN tasks[t].searches
    /\ tasks[t].searches[g].pc = "query"
    /\ Outcome(ok)
    /\ \E drivers \in SearchDrivers(rdb, index, SearchLimit, tasks[t].Lat, R_search, ok) :
         tasks' = [tasks EXCEPT ![t] =
            [@ EXCEPT !.searches =
                         IF Len(drivers) = 1
                         THEN [@ EXCEPT ![g] = [@ EXCEPT !.pc = "remove",
                                                         !.drv = drivers[1]]]
                         ELSE Remove(@, g),
                      !.last = IF ~ok THEN "unreachable"
                               ELSE IF Len(drivers) = 1 THEN "found" ELSE "empty"]]
    /\ UNCHANGED <<alive, rdb, index, calls, run, resp>>

\* doSearch that gives up its match when the removal failed.
doSearchRemove_GiveUp(t, g, ok) ==
    /\ alive
    /\ g \in DOMAIN tasks[t].searches
    /\ tasks[t].searches[g].pc = "remove"
    /\ Outcome(ok)
    /\ LET r == RemoveDriverLocation(rdb, index, tasks[t].searches[g].drv, ok)
       IN  rdb' = r.db /\ index' = r.idx
    /\ tasks' = [tasks EXCEPT ![t] =
         [@ EXCEPT !.searches = IF ok THEN [@ EXCEPT ![g].pc = "assign"]
                                ELSE Remove(@, g),
                   !.last = IF ok THEN "removed" ELSE "kept"]]
    /\ UNCHANGED <<alive, calls, run, resp>>

\* rClient.RemoveDriverLocation(drivers[0].Name)
doSearchRemove(t, g, ok) ==
    /\ alive
    /\ g \in DOMAIN tasks[t].searches
    /\ tasks[t].searches[g].pc = "remove"
    /\ Outcome(ok)
    /\ LET r == RemoveDriverLocation(rdb, index, tasks[t].searches[g].drv, ok)
       IN  rdb' = r.db /\ index' = r.idx
    /\ tasks' = [tasks EXCEPT ![t] =
         [@ EXCEPT !.searches[g].pc = "assign",
                   !.last = IF ok THEN "removed" ELSE "kept"]]
    /\ UNCHANGED <<alive, calls, run, resp>>

\* r.DriverID = drivers[0].Name
doSearchAssign(t, g) ==
    /\ alive
    /\ g \in DOMAIN tasks[t].searches
    /\ tasks[t].searches[g].pc = "assign"
    /\ tasks' = [tasks EXCEPT ![t] =
         [@ EXCEPT !.DriverID = tasks[t].searches[g].drv,
                   !.searches[g].pc = "send"]]
    /\ UNCHANGED <<alive, rdb, index, calls, faults, run, resp>>

\* done <- true: blocks while the channel's one slot is taken.
doSearchSend(t, g) ==
    /\ alive
    /\ g \in DOMAIN tasks[t].searches
    /\ tasks[t].searches[g].pc = "send"
    /\ Len(tasks[t].done) < DoneCap
    /\ tasks' = [tasks EXCEPT ![t] =
         [@ EXCEPT !.done = Append(@, tasks[t].searches[g].lag),
                   !.searches = Remove(@, g)]]
    /\ UNCHANGED <<alive, rdb, index, calls, faults, run, resp>>

\* ------------------------------------------------------------------ time
\* dt seconds pass in Redis. A key whose TTL runs out inside the period is gone;
\* a key whose TTL runs out at the very end of the period is in its last
\* millisecond (ttl 0): a command that arrives now may still find it.
Expire(db, dt) ==
    [k \in Keys |->
        IF db[k].ttl = NoTTL THEN db[k]
        ELSE IF db[k].ttl < dt THEN NoKey
        ELSE [db[k] EXCEPT !.ttl = @ - dt]]

\* The last millisecond of a key is over.
Lapse(k) ==
    /\ alive
    /\ rdb[k].type # "none"
    /\ rdb[k].ttl = 0
    /\ rdb' = [rdb EXCEPT ![k] = NoKey]
    /\ index' = Members(rdb', index)
    /\ UNCHANGED <<alive, tasks, calls, faults, run, resp>>

\* The Run loop is waiting in its select: it takes a tick or a done that is ready.
Waiting(r) == Running(r) /\ (r.tick \/ r.done # <<>>)

\* A doSearch that moves before the period ends: it has used up its time in the
\* index, or it has its answer and nothing between it and the done channel.
Late(r) == \E g \in DOMAIN r.searches :
              \/ r.searches[g].pc \in {"query", "remove"} /\ r.searches[g].lag >= run.lag
              \/ r.searches[g].pc = "assign"
              \/ r.searches[g].pc = "send" /\ Len(r.done) < DoneCap

\* One ticker period passes: every running ticker fires.
Advance ==
    /\ alive
    /\ \A t \in DOMAIN tasks : ~Waiting(tasks[t]) /\ ~Late(tasks[t])
    /\ rdb' = Expire(rdb, T_poll)
    /\ index' = Members(rdb', index)
    /\ tasks' = [t \in DOMAIN tasks |->
         LET r == [tasks[t] EXCEPT !.searches =
                     [g \in DOMAIN @ |->
                        IF @[g].pc # "send" THEN [@[g] EXCEPT !.lag = @ + 1]
                        ELSE @[g]]]
         IN  IF Running(r)
             THEN [r EXCEPT !.tick = TRUE, !.age = @ + T_poll]
             ELSE r]
    /\ UNCHANGED <<alive, calls, faults, run, resp>>

Slots == 1..(MaxLag + 3)

Next ==
    \/ GetRedisClient
    \/ \E d \in BOOLEAN, lat \in Targets, i \in BOOLEAN, s \in BOOLEAN :
          SearchV2(d, lat, i, s)
    \/ \E id \in Keys, s \in BOOLEAN : CancelRequest(id, s)
    \/ CancelRequestBadBody
    \/ \E id \in run.agents, lat \in run.spots, ok \in BOOLEAN : tracking(id, lat, ok)
    \/ trackingRejected
    \/ \E t \in DOMAIN tasks, ok \in BOOLEAN : RunTick(t, ok)
    \/ \E t \in DOMAIN tasks : RunDone(t)
    \/ \E t \in DOMAIN tasks, g \in Slots, ok \in BOOLEAN : doSearchQuery(t, g, ok)
    \/ \E t \in DOMAIN tasks, g \in Slots, ok \in BOOLEAN : doSearchRemove(t, g, ok)
    \/ \E t \in DOMAIN tasks, g \in Slots : doSearchAssign(t, g)
    \/ \E t \in DOMAIN tasks, g \in Slots : doSearchSend(t, g)
    \/ \E k \in Keys : Lapse(k)
    \/ Advance

\* Concurrent requests, one driver in reach, and PairEvents events around them.
Pair == [tasks |-> PairTasks, events |-> PairEvents, agents |-> {"A1"}, spots |-> {2},
         lag |-> MaxLag, replies |-> FALSE]

\* One request, any driver anywhere, and SoloEvents events around it.
Solo == [tasks |-> SoloTasks, events |-> SoloEvents, agents |-> Agents, spots |-> AgentPos,
         lag |-> MaxLag, replies |-> FALSE]

Init == InitWith(Pair) \/ InitWith(Solo)

Spec == Init /\ [][Next]_vars

\* Two requests and ClashEvents cancel calls while no agent reports and Redis
\* answers every command, each doSearch within its ticker period.
Clash == [tasks |-> ClashTasks, events |-> ClashEvents, agents |-> {}, spots |-> {},
          lag |-> 0, replies |-> FALSE]

InitClash == InitWith(Clash)

NextClash ==
    \/ \E lat \in Targets : SearchV2(TRUE, lat, TRUE, TRUE)
    \/ \E id \in Keys : CancelRequest(id, TRUE)
    \/ \E t \in DOMAIN tasks : RunTick(t, TRUE)
    \/ \E t \in DOMAIN tasks, g \in Slots : doSearchQuery(t, g, TRUE)
    \/ \E k \in Keys : Lapse(k)
    \/ Advance

SpecClash == InitClash /\ [][NextClash]_vars

\* One request, one agent and one cancel call with an index that may take up to
\* StallLag ticker periods to answer, Redis answering every command. Every
\* goroutine that can run does run, and time passes.
Stall == [tasks |-> StallTasks, events |-> StallEvents, agents |-> {"A1"}, spots |-> {2},
          lag |-> StallLag, replies |-> FALSE]

InitStall == InitWith(Stall)

NextStall ==
    \/ \E lat \in Targets : SearchV2(TRUE, lat, TRUE, TRUE)
    \/ \E id \in RequestKeys : CancelRequest(id, TRUE)
    \/ \E id \in run.agents, lat \in run.spots : tracking(id, lat, TRUE)
    \/ \E t \in DOMAIN tasks : RunTick(t, TRUE)
    \/ \E t \in DOMAIN tasks : RunDone(t)
    \/ \E t \in DOMAIN tasks, g \in Slots : doSearchQuery(t, g, TRUE)
    \/ \E t \in DOMAIN tasks, g \in Slots : doSearchRemove(t, g, TRUE)
    \/ \E t \in DOMAIN tasks, g \in Slots : doSearchAssign(t, g)
    \/ \E t \in DOMAIN tasks, g \in Slots : doSearchSend(t, g)
    \/ \E k \in Keys : Lapse(k)
    \/ Advance

FairStall ==
    /\ WF_vars(Advance)
    /\ \A t \in 1..StallTasks :
          /\ WF_vars(t \in DOMAIN tasks /\ RunTick(t, TRUE))
          /\ WF_vars(t \in DOMAIN tasks /\ RunDone(t))
          /\ \A g \in Slots :
                /\ WF_vars(t \in DOMAIN tasks /\ doSearchQuery(t, g, TRUE))
                /\ WF_vars(t \in DOMAIN tasks /\ doSearchRemove(t, g, TRUE))
                /\ WF_vars(t \in DOMAIN tasks /\ doSearchAssign(t, g))
                /\ WF_vars(t \in DOMAIN tasks /\ doSearchSend(t, g))

SpecStall == InitStall /\ [][NextStall]_vars /\ FairStall

\* The synchronous endpoints on their own: position reports, immediate searches,
\* withdrawals, cancel calls and the passing of time, with the replies recorded.
Desk == [tasks |-> 0, events |-> DeskEvents, agents |-> Agents, spots |-> DeskSpots,
         lag |-> 0, replies |-> TRUE]

InitDesk == InitWith(Desk)

NextDesk ==
    \/ \E id \in run.agents, lat \in run.spots, ok \in BOOLEAN : tracking(id, lat, ok)
    \/ trackingRejected
    \/ \E method \in Methods, decodable \in BOOLEAN, limit \in Limits,
          lat \in Targets, ok \in BOOLEAN : search(method, decodable, limit, lat, ok)
    \/ \E id \in run.agents, ok \in BOOLEAN : Withdraw(id, ok)
    \/ \E id \in Keys, s \in BOOLEAN : CancelRequest(id, s)
    \/ \E k \in Keys : Lapse(k)
    \/ Advance

SpecDesk == InitDesk /\ [][NextDesk]_vars

\* ---------------------------------------------------------------- properties
\* Some doSearch of the task has had an agent returned by the index.
Found(r) ==
    \/ r.DriverID # ""
    \/ r.done # <<>>
    \/ \E g \in DOMAIN r.searches : r.searches[g].pc # "query"

Active == [type |-> "string", val |-> BoolArg(TRUE), ttl |-> T_search]
CanceledFlag == [type |-> "string", val |-> BoolArg(FALSE), ttl |-> T_cancelGrace]

\* C1: a task hands at most one message to sendInfo in its whole life: none while
\* it polls, the "found" message naming an agent once it is Matched, the "no
\* driver" message once it is Expired, and none when it ends Canceled.
C1_NotifiesAtMostOnce ==
    \A t \in DOMAIN tasks :
        LET r == tasks[t]
        IN  /\ r.state \in {"Polling", "Matched", "Expired", "Canceled"}
            /\ r.state \in {"Polling", "Canceled"} => r.sent = <<>>
            /\ r.state = "Expired" => r.sent = <<MsgExpired>>
            /\ r.state = "Matched" => \E a \in Agents : r.sent = <<MsgFound(a)>>

\* Of two concurrent requests one has ended Matched and the other Expired, each
\* with its one message.
C1_Witness ==
    \E t, u \in DOMAIN tasks :
        /\ tasks[t].state = "Matched" /\ tasks[t].sent = <<MsgFound("A1")>>
        /\ tasks[u].state = "Expired" /\ tasks[u].sent = <<MsgExpired>>

\* C2: a request that is never canceled, whose searches never find an agent and
\* whose Redis commands all succeed, expires with one message no earlier than
\* T_search and no later than T_search + T_poll after its start.
C2_ExpiresInWindow ==
    \A t \in DOMAIN tasks :
        LET r == tasks[t]
        IN  (r.state = "Expired" /\ faults = 0 /\ r.cancels = 0 /\ ~Found(r))
                => /\ r.age >= T_search
                   /\ r.age <= T_search + T_poll
                   /\ r.sent = <<MsgExpired>>

\* C3: a request that was named by a cancel call while its task was polling
\* stays without a message and ends Canceled (all Redis commands succeeding).
C3_CanceledStaysSilent ==
    \A t \in DOMAIN tasks :
        LET r == tasks[t]
        IN  (r.cancels > 0 /\ faults = 0)
                => r.state \in {"Polling", "Canceled"} /\ r.sent = <<>>

C6_IdsIncrease ==
    \A t, u \in DOMAIN tasks : t < u => Atoi(tasks[t].ID) < Atoi(tasks[u].ID)

\* C7 as stated: with one position report in all, no two tasks are Matched with
\* the same agent.
C7_MatchedOnce ==
    \A t, u \in DOMAIN tasks :
        (t # u /\ calls <= 1 /\ tasks[t].state = "Matched" /\ tasks[u].state = "Matched")
            => tasks[t].DriverID # tasks[u].DriverID

\* C7, amended: with one position report in all and every Redis command
\* succeeding, a search is handed an agent only while no removal of that agent
\* has completed: no task has the agent as its DriverID, and every other search
\* that holds the agent still has its removal ahead.
C7_OfferedUntilRemoved ==
    [][ \A t \in DOMAIN tasks, g \in Slots :
          (doSearchQuery(t, g, TRUE) /\ calls <= 1 /\ faults = 0
              /\ Len(tasks'[t].searches) = Len(tasks[t].searches))
             => LET a == tasks'[t].searches[g].drv
                IN  \A u \in DOMAIN tasks :
                       /\ tasks[u].DriverID # a
                       /\ \A h \in DOMAIN tasks[u].searches :
                             tasks[u].searches[h].drv = a
                                => tasks[u].searches[h].pc = "remove"
      ]_vars

\* The searches of two tasks both hold the one agent, both removals still ahead.
C7_Witness ==
    \E t, u \in DOMAIN tasks :
        /\ t # u
        /\ calls <= 1
        /\ \E g \in DOMAIN tasks[t].searches, h \in DOMAIN tasks[u].searches :
              /\ tasks[t].searches[g] = [pc |-> "remove", drv |-> "A1", lag |-> 0]
              /\ tasks[u].searches[h] = [pc |-> "remove", drv |-> "A1", lag |-> 0]

\* C8: when SearchV2 has started a task (all Redis commands succeeding), the
\* task's id has a ledger entry written active with TTL T_search, the task is
\* the only one bound to that id, and it is polling.
C8_StartedWithEntry ==
    [][ \A d \in BOOLEAN, lat \in Targets, i \in BOOLEAN, s \in BOOLEAN :
          (SearchV2(d, lat, i, s) /\ Len(tasks') > Len(tasks) /\ faults' = 0)
             => LET r == tasks'[Len(tasks')]
                IN  /\ rdb'[r.ID] = Active
                    /\ Cardinality({t \in DOMAIN tasks' : tasks'[t].ID = r.ID}) = 1
                    /\ r.state = "Polling" /\ r.Lat = lat
      ]_vars

C10_NoErrorIsFatal ==
    [][alive' /\ \A t \in DOMAIN tasks : t \in DOMAIN tasks']_vars

\* C11: a request that no cancel call and no position report ever met, with all
\* Redis commands succeeding, has launched exactly 8 searches when it expires,
\* and sends the "no driver" message.
C11_EightSearches ==
    \A t \in DOMAIN tasks :
        (tasks[t].state = "Expired" /\ calls = 0 /\ faults = 0)
            => tasks[t].attempts = 8 /\ tasks[t].sent = <<MsgExpired>>

\* The agents an immediate search around lat may return.
InReach(lat) == {a \in Agents : index[a] # NoPos /\ Dist(index[a], lat) <= R_immediate}

\* The reply d holds agents of the index within the radius, each once, nearest first.
NearestFirst(d, lat) ==
    /\ \A i \in DOMAIN d : d[i] \in InReach(lat)
    /\ \A i, j \in DOMAIN d :
          i < j => d[i] # d[j] /\ Dist(index[d[i]], lat) <= Dist(index[d[j]], lat)

\* C12 as stated: the reply of an immediate search holds only agents within the
\* radius, nearest first, and at most limit of them (none for a limit of 0 or
\* less); it is empty when no agent is within the radius.
C12_AtMostLimit ==
    [][ \A limit \in Limits, lat \in Targets :
          search("POST", TRUE, limit, lat, TRUE)
             => /\ NearestFirst(resp'.drivers, lat)
                /\ Len(resp'.drivers) <= (IF limit > 0 THEN limit ELSE 0)
                /\ InReach(lat) = {} => resp'.drivers = <<>>
      ]_vars

\* C12, amended: the reply holds only agents within the radius, nearest first;
\* for a limit of 1 or more it holds the limit nearest ones (all, when there are
\* fewer); for a limit of 0 or less it holds every agent within the radius; it
\* is empty when no agent is within the radius.
C12_NearestUpToLimit ==
    [][ \A limit \in Limits, lat \in Targets :
          search("POST", TRUE, limit, lat, TRUE)
             => LET d == resp'.drivers
                IN  /\ resp'.status = 200
                    /\ NearestFirst(d, lat)
                    /\ limit > 0 =>
                          /\ Len(d) = (IF Cardinality(InReach(lat)) < limit
                                       THEN Cardinality(InReach(lat)) ELSE limit)
                          /\ \A a \in InReach(lat), i \in DOMAIN d :
                                Dist(index[a], lat) < Dist(index[d[i]], lat)
                                   => \E j \in DOMAIN d : d[j] = a
                    /\ limit <= 0 => Len(d) = Cardinality(InReach(lat))
                    /\ InReach(lat) = {} => d = <<>>
      ]_vars

\* An immediate search has answered with the two agents within the radius, the
\* nearer one first.
C12_Witness ==
    /\ resp = [status |-> 200, drivers |-> <<"A1", "A2">>]
    /\ index["A1"] = 2
    /\ index["A2"] = 8

\* C13: in every state of the index, removing an agent twice leaves what
\* removing it once leaves, and two position reports of one agent leave the
\* agent in the index once, at the position of the second report.
C13_IndexIdempotent ==
    \A id \in Agents :
        LET once  == RemoveDriverLocation(rdb, index, id, TRUE)
            twice == RemoveDriverLocation(once.db, once.idx, id, TRUE)
        IN  /\ twice = once
            /\ \A p, q \in DeskSpots :
                  LET first  == AddDriverLocation(rdb, index, p, id, TRUE)
                      second == AddDriverLocation(first.db, first.idx, q, id, TRUE)
                  IN  /\ second.idx[id] = q
                      /\ \A a \in Agents \ {id} : second.idx[a] = index[a]

\* C14: a position report sent with POST and a decodable body, its GEOADD
\* reaching Redis, is answered 200 and leaves the agent in the index at the
\* reported position; a request sent with another method is answered 405 and
\* leaves the index as it is.
C14_ReportStored ==
    [][ /\ \A id \in Agents, lat \in DeskSpots :
              tracking(id, lat, TRUE) => resp'.status = 200 /\ index'[id] = lat
        /\ (resp' # resp /\ resp'.status = 405) => index' = index /\ rdb' = rdb
      ]_vars

\* C15: once a task has left its loop it stays in the state it ended in, and no
\* ledger read, index search or index removal is made for it any more.
C15_NoAccessAfterEnd ==
    [][ \A t \in DOMAIN tasks :
          (~Running(tasks[t]) /\ alive')
             => /\ tasks'[t].state = tasks[t].state
                /\ \A ok \in BOOLEAN : ~RunTick(t, ok)
                /\ \A g \in Slots, ok \in BOOLEAN :
                      ~doSearchQuery(t, g, ok) /\ ~doSearchRemove(t, g, ok)
      ]_vars

\* C16: a search takes an agent out of the index only for a task that is still
\* polling and has taken no agent before.
C16_RemovesOnlyItsMatch ==
    [][ \A t \in DOMAIN tasks, g \in Slots :
          (doSearchRemove(t, g, TRUE)
              /\ index[tasks[t].searches[g].drv] # NoPos
              /\ index'[tasks[t].searches[g].drv] = NoPos)
             => /\ tasks[t].state = "Polling"
                /\ tasks[t].DriverID = ""
                /\ tasks[t].done = <<>>
                /\ \A h \in DOMAIN tasks[t].searches :
                      tasks[t].searches[h].pc \in {"query", "remove"}
      ]_vars

\* C17: a task has at most one doSearch in progress.
C17_OneSearchAtATime ==
    \A t \in DOMAIN tasks : Len(tasks[t].searches) <= 1

\* C18: a tick whose GET is answered is decided by the ledger entry of the
\* request: no entry, Expired with the "no driver" message and no search;
\* entry false, Canceled with no message and no search; entry true, still
\* polling with exactly one more doSearch; and a doSearch is launched by no
\* other step.
C18_ValidityDecides ==
    [][ /\ \A t \in DOMAIN tasks :
              RunTick(t, TRUE)
                 => LET e == rdb[tasks[t].ID]
                        r == tasks[t]
                        q == tasks'[t]
                    IN  /\ e.type # "string"
                           => /\ q.state = "Expired"
                              /\ q.sent = Append(r.sent, MsgExpired)
                              /\ q.searches = r.searches
                        /\ (e.type = "string" /\ e.val = BoolArg(FALSE))
                           => /\ q.state = "Canceled"
                              /\ q.sent = r.sent
                              /\ q.searches = r.searches
                        /\ (e.type = "string" /\ e.val = BoolArg(TRUE))
                           => /\ q.state = "Polling"
                              /\ q.sent = r.sent
                              /\ Len(q.searches) = Len(r.searches) + 1
                              /\ q.attempts = r.attempts + 1
        /\ \A t \in DOMAIN tasks :
              (alive' /\ tasks'[t].attempts # tasks[t].attempts)
                 => /\ tasks[t].tick /\ ~tasks'[t].tick
                    /\ rdb[tasks[t].ID].type = "string"
                    /\ rdb[tasks[t].ID].val = BoolArg(TRUE)
      ]_vars

\* A task has searched at its first tick and found its request canceled at the
\* second.
C18_Witness ==
    \E t \in DOMAIN tasks :
        /\ tasks[t].state = "Canceled"
        /\ tasks[t].attempts = 1
        /\ tasks[t].age = 2 * T_poll
        /\ tasks[t].reply = "canceled"

\* C19: a request named by a cancel call while its task was polling does not end
\* Expired (all Redis commands succeeding).
C19_CanceledNeverExpires ==
    \A t \in DOMAIN tasks :
        (tasks[t].cancels > 0 /\ faults = 0) => tasks[t].state # "Expired"

\* C20: a tick whose GET fails in transport ends the task Expired with the "no
\* driver" message as its only message, and launches no doSearch.
C20_ReadErrorExpires ==
    [][ \A t \in DOMAIN tasks :
          RunTick(t, FALSE)
             => /\ tasks'[t].state = "Expired"
                /\ tasks'[t].sent = <<MsgExpired>>
                /\ tasks'[t].searches = tasks[t].searches
                /\ tasks'[t].attempts = tasks[t].attempts
      ]_vars

\* A task has ended Expired on a failed GET while its ledger entry is still
\* there and active.
C20_Witness ==
    \E t \in DOMAIN tasks :
        /\ tasks[t].state = "Expired"
        /\ tasks[t].reply = "transport"
        /\ tasks[t].sent = <<MsgExpired>>
        /\ rdb[tasks[t].ID].type = "string"
        /\ rdb[tasks[t].ID].val = BoolArg(TRUE)

\* C21: a doSearch whose GEORADIUS fails ends there: the task keeps its state,
\* its DriverID and its messages, nothing leaves the index, no signal is put on
\* done, and a task that is polling has its tick at the end of the period.
C21_UnreachableIsNoResult ==
    [][ /\ \A t \in DOMAIN tasks, g \in Slots :
              doSearchQuery(t, g, FALSE)
                 => /\ tasks'[t].state = tasks[t].state
                    /\ tasks'[t].DriverID = tasks[t].DriverID
                    /\ tasks'[t].sent = tasks[t].sent
                    /\ tasks'[t].done = tasks[t].done
                    /\ tasks'[t].ticker = tasks[t].ticker
                    /\ tasks'[t].searches = Remove(tasks[t].searches, g)
                    /\ index' = index
                    /\ rdb' = rdb
        /\ Advance
              => \A t \in DOMAIN tasks :
                    Running(tasks[t]) => Running(tasks'[t]) /\ tasks'[t].tick
      ]_vars

\* The only doSearch of a polling task could not reach the index while an agent
\* was in reach; the task polls on with no agent, and the agent is still there.
C21_Witness ==
    \E t \in DOMAIN tasks :
        /\ tasks[t].state = "Polling"
        /\ tasks[t].attempts = 1
        /\ tasks[t].last = "unreachable"
        /\ tasks[t].searches = <<>>
        /\ tasks[t].DriverID = ""
        /\ tasks[t].sent = <<>>
        /\ tasks[t].tick
        /\ \E a \in Agents : index[a] # NoPos /\ Dist(index[a], tasks[t].Lat) <= R_search

\* C22: a doSearch whose removal fails goes on as after a removal that worked: it
\* records the agent it found, signals done, and makes no second removal; a task
\* that takes the signal ends Matched with the message naming its DriverID.
C22_StaleRemovalHonored ==
    [][ /\ \A t \in DOMAIN tasks, g \in Slots :
              doSearchRemove(t, g, FALSE)
                 => /\ Len(tasks'[t].searches) = Len(tasks[t].searches)
                    /\ tasks'[t].searches[g].pc = "assign"
                    /\ tasks'[t].searches[g].drv = tasks[t].searches[g].drv
                    /\ index' = index
        /\ \A t \in DOMAIN tasks, g \in Slots :
              doSearchAssign(t, g)
                 => /\ tasks'[t].DriverID = tasks[t].searches[g].drv
                    /\ tasks'[t].searches[g].pc = "send"
        /\ \A t \in DOMAIN tasks :
              RunDone(t)
                 => /\ tasks'[t].state = "Matched"
                    /\ tasks'[t].sent = <<MsgFound(tasks[t].DriverID)>>
      ]_vars

\* The only doSearch of a task failed to remove the agent it found; the task is
\* Matched with that agent, who is still in the index.
C22_Witness ==
    \E t \in DOMAIN tasks :
        /\ tasks[t].state = "Matched"
        /\ tasks[t].attempts = 1
        /\ tasks[t].last = "kept"
        /\ tasks[t].DriverID # ""
        /\ tasks[t].sent = <<MsgFound(tasks[t].DriverID)>>
        /\ index[tasks[t].DriverID] # NoPos
        /\ faults = 1

\* C23: DriverID is written at most once in a task's life, by a doSearch of a
\* task that is still polling; once set it never changes; and a task that has
\* ended with a DriverID has ended Matched.
C23_DriverIDSetOnce ==
    [][ \A t \in DOMAIN tasks :
          alive'
             => /\ \A g \in Slots :
                      doSearchAssign(t, g)
                         => tasks[t].DriverID = "" /\ Running(tasks[t])
                /\ tasks[t].DriverID # ""
                      => tasks'[t].DriverID = tasks[t].DriverID
                /\ (~Running(tasks'[t]) /\ tasks'[t].DriverID # "")
                      => tasks'[t].state = "Matched"
      ]_vars

\* C24: a match goes in this order: ZREM of the found agent is issued, then the
\* agent is recorded as DriverID, then done is signalled, then Run sends the
\* message. A doSearch comes to record an agent only by issuing the removal; the
\* DriverID is written only by a doSearch that has issued it, and is the agent
\* that doSearch found; a signal is on done or on its way only when a DriverID
\* is recorded; and the message is sent on taking a signal and names the DriverID.
C24_MatchOrder ==
    [][ \A t \in DOMAIN tasks :
          alive'
             => /\ \A g \in DOMAIN tasks[t].searches :
                      (/\ Len(tasks'[t].searches) = Len(tasks[t].searches)
                       /\ tasks[t].searches[g].pc # "assign"
                       /\ tasks'[t].searches[g].pc = "assign")
                         => /\ tasks[t].searches[g].pc = "remove"
                            /\ \E ok \in BOOLEAN : doSearchRemove(t, g, ok)
                            /\ tasks'[t].DriverID = tasks[t].DriverID
                            /\ tasks'[t].done = tasks[t].done
                /\ tasks'[t].DriverID # tasks[t].DriverID
                      => \E g \in DOMAIN tasks[t].searches :
                            /\ tasks[t].searches[g].pc = "assign"
                            /\ tasks'[t].DriverID = tasks[t].searches[g].drv
                            /\ tasks'[t].searches[g].pc = "send"
                            /\ index' = index
                            /\ tasks'[t].done = tasks[t].done
                /\ (\/ tasks'[t].done # <<>>
                    \/ \E g \in DOMAIN tasks'[t].searches :
                          tasks'[t].searches[g].pc = "send")
                      => tasks'[t].DriverID # ""
                /\ tasks'[t].sent # tasks[t].sent /\ tasks'[t].state = "Matched"
                      => /\ tasks[t].done # <<>>
                         /\ tasks[t].DriverID # ""
                         /\ tasks'[t].sent = <<MsgFound(tasks[t].DriverID)>>
      ]_vars

\* The only doSearch of a task has removed its agent, recorded it and signalled,
\* and Run has sent the message naming it.
C24_Witness ==
    \E t \in DOMAIN tasks :
        /\ tasks[t].state = "Matched"
        /\ tasks[t].attempts = 1
        /\ tasks[t].last = "removed"
        /\ tasks[t].searches = <<>>
        /\ tasks[t].done = <<>>
        /\ tasks[t].DriverID # ""
        /\ index[tasks[t].DriverID] = NoPos
        /\ tasks[t].sent = <<MsgFound(tasks[t].DriverID)>>

\* C25: a task that has left its loop has stopped its ticker.
C25_TickerStopped ==
    \A t \in DOMAIN tasks : ~Running(tasks[t]) => ~tasks[t].ticker

\* C26: a cancel call changes no key but the one it names, and neither the id
\* counter nor the geo set; and every string key other than the counter is the
\* decimal string of an id.
C26_CancelTouchesItsEntry ==
    [][ /\ \A id \in Keys, ok \in BOOLEAN :
              CancelRequest(id, ok)
                 => /\ \A k \in Keys \ {id} : rdb'[k] = rdb[k]
                    /\ rdb'[CounterKey] = rdb[CounterKey]
                    /\ rdb'[key] = rdb[key]
                    /\ index' = index
        /\ \A k \in Keys \ {CounterKey} :
              rdb'[k].type = "string" => k \in RequestKeys
      ]_vars

\* C27: a task is in its loop no longer than T_search + T_poll.
C27_EndsInTime ==
    \A t \in DOMAIN tasks : Running(tasks[t]) => tasks[t].age <= T_search + T_poll

\* C29: a SearchV2 call that starts no task leaves Redis as it was, and every
\* key that holds true is the ID of a task.
C29_FailedStartChangesNothing ==
    [][ /\ \A d \in BOOLEAN, lat \in Targets, i \in BOOLEAN, o \in BOOLEAN :
              (SearchV2(d, lat, i, o) /\ tasks' = tasks) => rdb' = rdb
        /\ \A k \in RequestKeys :
              (alive' /\ rdb'[k].type = "string" /\ rdb'[k].val = BoolArg(TRUE))
                 => \E t \in DOMAIN tasks' : tasks'[t].ID = k
      ]_vars

\* C28: every doSearch of a task comes to its end: whenever a task has a doSearch
\* in progress, a moment follows at which it has none.
C28_SearchesEnd ==
    \A t \in 1..StallTasks :
        (t \in DOMAIN tasks /\ tasks[t].searches # <<>>)
            ~> (t \in DOMAIN tasks /\ tasks[t].searches = <<>>)
====
